---------------------------- MODULE Spec2Model ----------------------------
(***************************************************************************)
(* Model of brej-29/daily-workout-planner: the two-pass plan generation    *)
(* of services/openai_ops.py (generate_workout_plan), its response parsing *)
(* (_parse_json_or_raise), the image cache (generate_image_dalle2), the    *)
(* file-name sanitiser of utils/parse.py (safe_filename) and the button    *)
(* handlers of app.py that call them.                                      *)
(*                                                                         *)
(* Python values are modelled as follows.                                  *)
(*   - A response text is a sequence of lexical tokens (TLA+ strings):     *)
(*     punctuation, whitespace, literals, numbers, string literals and     *)
(*     bare words.  json.loads is a recursive-descent parser over them.    *)
(*   - A JSON value is a tagged record: [t |-> "obj", o |-> f] with f a    *)
(*     function from keys to values, [t |-> "arr", a |-> seq],             *)
(*     [t |-> "str", s |-> string], [t |-> "num", n |-> int],              *)
(*     [t |-> "lit", l |-> "null" | "true" | "false"].                     *)
(*   - A file name is a sequence of one-character strings.                 *)
(***************************************************************************)
EXTENDS Integers, Sequences, FiniteSets, TLC

(***************************************************************************)
(* Bounds of the model.                                                    *)
(***************************************************************************)
\* longest free part of a name given to safe_filename
MaxNameLen == 2
\* longest enumerated text given to _parse_json_or_raise
MaxTextLen == 4
\* image-API requests issued in one run of the image specification
MaxApiCalls == 3
\* distinct image bodies the download may deliver
MaxBody == 2

BodyChunks == 2

(***************************************************************************)
(* Lexical classes of a response text.                                     *)
(***************************************************************************)
WS == {" ", "\n"}

Punct == {"{", "}", "[", "]", ":", ","}

Lits == {"null", "true", "false"}

\* number literals and the integers they denote
NumVal == [x \in {"0", "1", "5", "10", "30"} |->
             CASE x = "0" -> 0 [] x = "1" -> 1 [] x = "5" -> 5
               [] x = "10" -> 10 [] x = "30" -> 30]

\* bare words: text that is no JSON token (prose around or instead of JSON)
Bare == {"Here is your plan:", "Note", "Sorry"}

IsStrTok(tok) == tok \notin (WS \cup Punct \cup Lits \cup DOMAIN NumVal \cup Bare)

(***************************************************************************)
(* JSON values.                                                            *)
(***************************************************************************)
JObj(f) == [t |-> "obj", o |-> f]

JArr(q) == [t |-> "arr", a |-> q]

JStr(x) == [t |-> "str", s |-> x]

JNum(k) == [t |-> "num", n |-> k]

JLit(x) == [t |-> "lit", l |-> x]

\* the function with empty domain: Python's {}
NoMembers == [x \in {} |-> x]

EmptyDict == JObj(NoMembers)

\* Python truth value of a parsed JSON value (`if not core:`)
Truthy(v) ==
  CASE v.t = "obj" -> DOMAIN v.o # {}
    [] v.t = "arr" -> Len(v.a) > 0
    [] v.t = "str" -> v.s # ""
    [] v.t = "num" -> v.n # 0
    [] v.t = "lit" -> v.l = "true"

IsDict(v) == v.t = "obj"

\* Python's `k in v` for the container types; a number or literal raises TypeError
HasKey(v, k) ==
  CASE v.t = "obj" -> k \in DOMAIN v.o
    [] v.t = "arr" -> \E i \in 1..Len(v.a) : v.a[i] = JStr(k)
    [] v.t = "str" -> v.s = k
    [] OTHER -> FALSE

SupportsIn(v) == v.t \in {"obj", "arr", "str"}

\* dict.get(k, default)
Get(v, k, dflt) == IF k \in DOMAIN v.o THEN v.o[k] ELSE dflt

(***************************************************************************)
(* json.loads: whitespace is skipped between tokens; the whole text must   *)
(* be one value.  A parse result is [ok, v, i]: i is the next position.    *)
(***************************************************************************)
RECURSIVE SkipWs(_, _)
SkipWs(toks, i) ==
  IF i <= Len(toks) /\ toks[i] \in WS THEN SkipWs(toks, i + 1) ELSE i

ParseFail == [ok |-> FALSE, v |-> JLit("null"), i |-> 0]

ParseOk(val, nxt) == [ok |-> TRUE, v |-> val, i |-> nxt]

RECURSIVE ParseValue(_, _)
RECURSIVE ParseMembers(_, _, _)
RECURSIVE ParseElements(_, _, _)

ParseValue(toks, i0) ==
  LET i == SkipWs(toks, i0) IN
  IF i > Len(toks) THEN ParseFail
  ELSE LET tok == toks[i] IN
    CASE tok = "{" ->
           LET j == SkipWs(toks, i + 1) IN
           IF j <= Len(toks) /\ toks[j] = "}" THEN ParseOk(EmptyDict, j + 1)
           ELSE ParseMembers(toks, j, NoMembers)
      [] tok = "[" ->
           LET j == SkipWs(toks, i + 1) IN
           IF j <= Len(toks) /\ toks[j] = "]" THEN ParseOk(JArr(<<>>), j + 1)
           ELSE ParseElements(toks, j, <<>>)
      [] tok \in Lits -> ParseOk(JLit(tok), i + 1)
      [] tok \in DOMAIN NumVal -> ParseOk(JNum(NumVal[tok]), i + 1)
      [] IsStrTok(tok) -> ParseOk(JStr(tok), i + 1)
      [] OTHER -> ParseFail

\* members of an object after "{": key ":" value ("," key ":" value)* "}"
ParseMembers(toks, i0, acc) ==
  LET i == SkipWs(toks, i0) IN
  IF i > Len(toks) \/ ~IsStrTok(toks[i]) THEN ParseFail
  ELSE LET c == SkipWs(toks, i + 1) IN
    IF c > Len(toks) \/ toks[c] # ":" THEN ParseFail
    ELSE LET r == ParseValue(toks, c + 1) IN
      IF ~r.ok THEN ParseFail
      ELSE LET j   == SkipWs(toks, r.i)
               \* a repeated key keeps its last value
               new == (toks[i] :> r.v) @@ acc
           IN IF j > Len(toks) THEN ParseFail
              ELSE IF toks[j] = "}" THEN ParseOk(JObj(new), j + 1)
              ELSE IF toks[j] = "," THEN ParseMembers(toks, j + 1, new)
              ELSE ParseFail

\* elements of an array after "[": value ("," value)* "]"
ParseElements(toks, i0, acc) ==
  LET r == ParseValue(toks, i0) IN
  IF ~r.ok THEN ParseFail
  ELSE LET j   == SkipWs(toks, r.i)
           new == Append(acc, r.v)
       IN IF j > Len(toks) THEN ParseFail
          ELSE IF toks[j] = "]" THEN ParseOk(JArr(new), j + 1)
          ELSE IF toks[j] = "," THEN ParseElements(toks, j + 1, new)
          ELSE ParseFail

\* json.loads(text): [ok, v]; trailing non-whitespace is "Extra data"
JsonLoads(text) ==
  LET r == ParseValue(text, 1) IN
  IF r.ok /\ SkipWs(text, r.i) > Len(text) THEN [ok |-> TRUE, v |-> r.v]
  ELSE [ok |-> FALSE, v |-> JLit("null")]

(***************************************************************************)
(* json.dumps(v, separators=(",", ":")): the compact text of a value.      *)
(***************************************************************************)
RECURSIVE SetToSeq(_)
SetToSeq(S) ==
  IF S = {} THEN <<>>
  ELSE LET x == CHOOSE y \in S : TRUE IN <<x>> \o SetToSeq(S \ {x})

RECURSIVE Dumps(_)
RECURSIVE DumpMembers(_, _)
RECURSIVE DumpElements(_)

Dumps(v) ==
  CASE v.t = "obj" -> <<"{">> \o DumpMembers(v.o, SetToSeq(DOMAIN v.o)) \o <<"}">>
    [] v.t = "arr" -> <<"[">> \o DumpElements(v.a) \o <<"]">>
    [] v.t = "str" -> <<v.s>>
    [] v.t = "num" -> <<CHOOSE x \in DOMAIN NumVal : NumVal[x] = v.n>>
    [] v.t = "lit" -> <<v.l>>

DumpMembers(f, keys) ==
  IF keys = <<>> THEN <<>>
  ELSE <<Head(keys), ":">> \o Dumps(f[Head(keys)])
       \o (IF Len(keys) > 1 THEN <<",">> ELSE <<>>)
       \o DumpMembers(f, Tail(keys))

DumpElements(q) ==
  IF q = <<>> THEN <<>>
  ELSE Dumps(Head(q)) \o (IF Len(q) > 1 THEN <<",">> ELSE <<>>)
       \o DumpElements(Tail(q))

\* str.strip(): leading and trailing whitespace removed
RECURSIVE RStrip(_)
RStrip(text) ==
  IF text # <<>> /\ text[Len(text)] \in WS
  THEN RStrip(SubSeq(text, 1, Len(text) - 1)) ELSE text

Strip(text) ==
  LET i == SkipWs(text, 1) IN RStrip(SubSeq(text, i, Len(text)))


(***************************************************************************)
(* Responses of the remote text-generation endpoint.  A response either    *)
(* raises (network, auth, rate limit) or carries a list of choices, each   *)
(* with a content (a text, or None) and a finish reason.                   *)
(***************************************************************************)
ExFields == {"title", "prescription", "rest", "intensity", "tempo",
             "notes", "est_kcal", "est_minutes", "equipment", "tags"}

\* the key check without titles_for_images
CoreKeys_Three == <<"meta", "summary", "blocks">>

CoreKeys == <<"meta", "summary", "blocks", "titles_for_images">>

ViewKeys == {"plan_html_fragment", "talk_track"}

\* an exercise record carrying every declared field
Exercise(title) ==
  JObj([k \in ExFields |->
    CASE k = "title" -> JStr(title)
      [] k = "prescription" -> JStr("3x10")
      [] k = "rest" -> JStr("60s")
      [] k = "intensity" -> JStr("RPE7")
      [] k = "tempo" -> JStr("")
      [] k = "notes" -> JStr("")
      [] k = "est_kcal" -> JNum(10)
      [] k = "est_minutes" -> JNum(5)
      [] k = "equipment" -> JArr(<<>>)
      [] k = "tags" -> JArr(<<>>)])

Block(name, exercises) ==
  JObj([k \in {"name", "est_minutes", "est_kcal", "exercises"} |->
    CASE k = "name" -> JStr(name)
      [] k = "est_minutes" -> JNum(10)
      [] k = "est_kcal" -> JNum(30)
      [] k = "exercises" -> JArr(exercises)])

Meta ==
  JObj([k \in {"goal", "environment", "level", "duration_min",
               "calorie_target", "equipment", "constraints"} |->
    CASE k = "goal" -> JStr("Strength")
      [] k = "environment" -> JStr("Gym")
      [] k = "level" -> JStr("Beginner")
      [] k = "duration_min" -> JNum(30)
      [] k = "calorie_target" -> JLit("null")
      [] k = "equipment" -> JArr(<<>>)
      [] k = "constraints" -> JArr(<<>>)])

Summary(title) ==
  JObj([k \in {"title", "est_total_minutes", "est_total_kcal"} |->
    CASE k = "title" -> JStr(title)
      [] k = "est_total_minutes" -> JNum(30)
      [] k = "est_total_kcal" -> JNum(30)])

Core(summary, blocks, titles) ==
  JObj([k \in {"meta", "summary", "blocks", "titles_for_images"} |->
    CASE k = "meta" -> Meta
      [] k = "summary" -> summary
      [] k = "blocks" -> blocks
      [] k = "titles_for_images" -> titles])

\* a core value that matches the declared schema
CoreA ==
  Core(Summary("Leg Day"),
       JArr(<<Block("Warm-up", <<Exercise("Squat")>>),
              Block("Main", <<Exercise("Lunge")>>),
              Block("Cool-down", <<>>)>>),
       JArr(<<JStr("Squat"), JStr("Lunge"), JStr("Plank")>>))

\* a core value with the four top-level keys that does not match the schema:
\* two blocks, one without a name, an exercise without "tempo"
CoreShort ==
  Core(Summary("Quick"),
       JArr(<<Block("Main",
                <<JObj([k \in ExFields \ {"tempo"} |-> Exercise("Squat").o[k]])>>),
              JObj([k \in {"exercises"} |-> JArr(<<>>)])>>),
       JArr(<<>>))

\* a core value whose summary is no object
CoreBadSummary == Core(JStr("Leg Day"), JArr(<<>>), JArr(<<>>))

\* a core value without the key titles_for_images
CoreNoTitles ==
  JObj([k \in {"meta", "summary", "blocks"} |-> CoreA.o[k]])

Choice(content, fr) == [content |-> content, isNone |-> FALSE, fr |-> fr]

NoneChoice(fr) == [content |-> <<>>, isNone |-> TRUE, fr |-> fr]

Resp(choice) == [raised |-> FALSE, choices |-> <<choice>>]

RemoteError == [raised |-> TRUE, choices |-> <<>>]

NoChoices == [raised |-> FALSE, choices |-> <<>>]

\* responses with no usable content: None, whitespace only, an empty object
EmptyResponses ==
  { Resp(NoneChoice("content_filter")),
    Resp(Choice(<<" ", "\n">>, "length")),
    Resp(Choice(<<"{", "}">>, "stop")) }

\* texts that are not JSON: cut off by the token limit, or JSON wrapped in prose
Truncated(v) == SubSeq(Dumps(v), 1, Len(Dumps(v)) - 2)

Wrapped(v) == <<"Here is your plan:", "\n">> \o Dumps(v) \o <<"\n", "Note">>

\* a JSON array whose elements are the four key names
KeyList == JArr([i \in 1..Len(CoreKeys) |-> JStr(CoreKeys[i])])

CoreResponses ==
  EmptyResponses \cup { RemoteError, NoChoices }
  \cup { Resp(Choice(<<" ">> \o Dumps(v) \o <<"\n">>, "stop")) :
           v \in {CoreA, CoreShort, CoreBadSummary, CoreNoTitles,
                  JArr(<<JNum(1)>>), JNum(5), KeyList} }
  \cup { Resp(Choice(Truncated(CoreA), "length")),
         Resp(Choice(Wrapped(CoreA), "stop")) }

View(frag, talk) ==
  JObj([k \in ViewKeys |->
    CASE k = "plan_html_fragment" -> JStr(frag) [] k = "talk_track" -> JStr(talk)])

ViewResponses ==
  { Resp(NoneChoice("length")), Resp(Choice(<<"{", "}">>, "stop")), RemoteError }
  \cup { Resp(Choice(Dumps(v), "stop")) :
           v \in {View("<div>plan</div>", "Go Sam"),
                  View("plan", ""),
                  View("", "Go Sam"),
                  JObj([k \in {"talk_track"} |-> JStr("Go Sam")]),
                  JObj([k \in {"plan_html_fragment"} |-> JStr("<div>plan</div>")]),
                  JArr(<<JNum(1)>>)} }
  \cup { Resp(Choice(Wrapped(View("<div>plan</div>", "Go Sam")), "stop")) }


(***************************************************************************)
(* Python strings that the code strips or searches: str.strip() of the     *)
(* strings of the model that carry surrounding whitespace, and the tags    *)
(* of the HTML strings of the model.                                       *)
(***************************************************************************)
StrStrip(x) ==
  CASE x = " " -> ""
    [] x = " Sam " -> "Sam"
    [] x = " Squat " -> "Squat"
    [] OTHER -> x

\* the opening tags of an HTML string, in order
HtmlTags(x) ==
  CASE x = "<div>plan</div>" -> <<"<div">>
    [] x = "<html><body>plan</body></html>" -> <<"<html", "<body">>
    [] x = "<p>plan</p>" -> <<"<p">>
    [] OTHER -> <<>>

Range(q) == {q[i] : i \in 1..Len(q)}

\* the search of is_html_fragment for a container tag
HasContainerTag(x) ==
  Range(HtmlTags(x)) \cap
    {"<section", "<div", "<article", "<h1", "<h2", "<h3", "<h4", "<h5",
     "<h6", "<p", "<ul", "<ol", "<table"} # {}

\* utils/parse.py is_html_fragment: no document tag and some container tag
IsHtmlFragment(x) ==
  IF Range(HtmlTags(x)) \cap {"<html", "<head", "<body", "<!DOCTYPE"} # {}
  THEN FALSE
  ELSE HasContainerTag(x)

(***************************************************************************)
(* _html_fragment_from_core.  The fragment is the list `out` of the code,  *)
(* a sequence of string pieces that "".join(out) concatenates.             *)
(***************************************************************************)
None == JLit("null")

\* the text an f-string writes for a value
Fmt(v) ==
  CASE v.t = "str" -> v.s
    [] v.t = "num" -> ToString(v.n)
    [] v.t = "lit" -> IF v.l = "null" THEN "None"
                      ELSE IF v.l = "true" THEN "True" ELSE "False"
    [] v.t = "arr" -> "[...]"
    [] v.t = "obj" -> "{...}"

RECURSIVE Join(_, _)
\* sep.join(parts), each part a sequence of pieces
Join(parts, sep) ==
  IF parts = <<>> THEN <<>>
  ELSE IF Len(parts) = 1 THEN parts[1]
  ELSE parts[1] \o <<sep>> \o Join(Tail(parts), sep)

RECURSIVE Concat(_)
Concat(parts) == IF parts = <<>> THEN <<>> ELSE Head(parts) \o Concat(Tail(parts))

\* the pieces kept of a list of [keep, pieces] in order
RECURSIVE Kept(_)
Kept(items) ==
  IF items = <<>> THEN <<>>
  ELSE (IF Head(items).keep THEN <<Head(items).pieces>> ELSE <<>>)
       \o Kept(Tail(items))

Item(keep, pieces) == [keep |-> keep, pieces |-> pieces]

\* the calls of the builder that raise on a value of the wrong type:
\* .get on a non-dict, iteration over a non-list, .strip on a non-string
ExerciseTyped(ex) ==
  /\ IsDict(ex)
  /\ \A k \in {"prescription", "rest", "intensity", "notes"} :
       Get(ex, k, JStr("")).t = "str"

BlockTyped(blk) ==
  /\ IsDict(blk)
  /\ Get(blk, "exercises", JArr(<<>>)).t = "arr"
  /\ \A i \in 1..Len(Get(blk, "exercises", JArr(<<>>)).a) :
       ExerciseTyped(Get(blk, "exercises", JArr(<<>>)).a[i])

FragmentTyped(core) ==
  /\ IsDict(core)
  /\ IsDict(Get(core, "summary", EmptyDict))
  /\ IsDict(Get(core, "meta", EmptyDict))
  /\ Get(core, "blocks", JArr(<<>>)).t = "arr"
  /\ \A i \in 1..Len(Get(core, "blocks", JArr(<<>>)).a) :
       BlockTyped(Get(core, "blocks", JArr(<<>>)).a[i])

MetaLine(meta) ==
  Join(Kept(<<
    Item(Truthy(Get(meta, "goal", None)),
         <<"Goal: <b>", Fmt(Get(meta, "goal", None)), "</b>">>),
    Item(Truthy(Get(meta, "environment", None)),
         <<"Env: <b>", Fmt(Get(meta, "environment", None)), "</b>">>),
    Item(Truthy(Get(meta, "level", None)),
         <<"Level: <b>", Fmt(Get(meta, "level", None)), "</b>">>),
    Item(Get(meta, "duration_min", None) # None,
         <<"Duration: <b>", Fmt(Get(meta, "duration_min", None)), " min</b>">>)
  >>), " * ")

ExerciseItem(ex) ==
  LET presc     == StrStrip(Get(ex, "prescription", JStr("")).s)
      rest      == StrStrip(Get(ex, "rest", JStr("")).s)
      intensity == StrStrip(Get(ex, "intensity", JStr("")).s)
      notes     == StrStrip(Get(ex, "notes", JStr("")).s)
      est_m     == Get(ex, "est_minutes", None)
      details   == Kept(<<
        Item(presc # "", <<presc>>),
        Item(rest # "", <<"Rest: ", rest>>),
        Item(intensity # "", <<"Intensity: ", intensity>>),
        Item(notes # "", <<"Notes: ", notes>>),
        Item(est_m # None, <<"(~", Fmt(est_m), " min)">>) >>)
  IN <<"<li><b>", Fmt(Get(ex, "title", JStr("Exercise"))), "</b>">>
     \o (IF details # <<>> THEN <<" - ">> \o Join(details, "; ") ELSE <<>>)
     \o <<"</li>">>

BlockCard(blk) ==
  LET mins == Get(blk, "est_minutes", None)
      kcal == Get(blk, "est_kcal", None)
      head_bits == Kept(<<
        Item(mins # None, <<Fmt(mins), " min">>),
        Item(kcal # None, <<"~", Fmt(kcal), " kcal">>) >>)
      exs == Get(blk, "exercises", JArr(<<>>)).a
  IN <<"<div class=wp-card>", "<h3>", Fmt(Get(blk, "name", JStr("Block")))>>
     \o (IF head_bits # <<>> THEN <<" (">> \o Join(head_bits, ", ") \o <<")">>
         ELSE <<>>)
     \o <<"</h3>", "<ul class=wp-ex>">>
     \o Concat([i \in 1..Len(exs) |-> ExerciseItem(exs[i])])
     \o <<"</ul>", "</div>">>

HtmlFragmentFromCore(core) ==
  LET title  == Get(Get(core, "summary", EmptyDict), "title",
                    JStr("Single-Day Workout Plan"))
      meta   == Get(core, "meta", EmptyDict)
      blocks == Get(core, "blocks", JArr(<<>>)).a
  IN <<"<section id=workout-plan class=wp-wrap>", "<style>css</style>",
       "<h2 class=wp-title>", Fmt(title), "</h2>">>
     \o (IF MetaLine(meta) # <<>>
         THEN <<"<div class=wp-meta>">> \o MetaLine(meta) \o <<"</div>">>
         ELSE <<>>)
     \o Concat([i \in 1..Len(blocks) |-> BlockCard(blocks[i])])
     \o <<"</section>">>


(***************************************************************************)
(* State.                                                                  *)
(***************************************************************************)
VARIABLES
  name,      \* st.session_state.name
  plan,      \* st.session_state.plan: [present |-> FALSE] while not set
  msg,       \* the message the last handler showed
  running,   \* the script has not been ended by an uncaught exception
  pc,        \* position in generate_workout_plan: the next attempt to issue
  attempts,  \* the remote requests of the current call, with what each returned
  core,      \* generate_workout_plan's local `core`
  ret,       \* how the last generate_workout_plan call ended
  files,     \* the image directory: file name -> body, NoFile while absent
  img,       \* the generate_image_dalle2 call in progress, or the last one
  apiCalls,  \* requests made to the image endpoint
  downloads, \* HTTP downloads made
  fnIn,      \* argument of the function applied on its own
  fnOut,     \* its result
  fnDone,    \* the function has been applied
  motLog,    \* the entries of assets/text/motivation_log.txt
  audio,     \* the files of assets/audio
  mot        \* how the last generate_motivation_and_tts call ended

vars == <<name, plan, msg, running, pc, attempts, core, ret,
          files, img, apiCalls, downloads, fnIn, fnOut, fnDone,
          motLog, audio, mot>>

planVars == <<name, plan, msg, running, pc, attempts, core, ret>>

imgVars == <<files, img, apiCalls, downloads>>

fnVars == <<fnIn, fnOut, fnDone>>

motVars == <<motLog, audio, mot>>

\* no motivation call made, nothing logged, no audio saved
NoMot == [kind |-> "none"]

MotStart == motLog = <<>> /\ audio = {} /\ mot = NoMot

(***************************************************************************)
(* generate_workout_plan.                                                  *)
(***************************************************************************)
DefaultModel == "gpt-4o-mini"

\* the model argument app.py passes
AppModel == "gpt-4o-mini"

PrimaryModel(model) == IF model = "" THEN DefaultModel ELSE model

FallbackModel == "gpt-4o-mini"

MaxOutputTokens == 3200

CoreTokens == 2500

CoreCompactTokens == 1800

ViewTokens == 900

ViewCompactTokens == 700

SnippetLen == 600

Min(a, b) == IF a < b THEN a ELSE b

NoErr == [kind |-> "none", ctx |-> "", snippet |-> <<>>, debug |-> <<>>, key |-> ""]

Err(kind, ctx) == [NoErr EXCEPT !.kind = kind, !.ctx = ctx]

Returned(v, dbg) == [raised |-> FALSE, v |-> v, dbg |-> dbg, err |-> NoErr]

Raised(err) == [raised |-> TRUE, v |-> None, dbg |-> <<>>, err |-> err]

BuildChatKwargs(model, messages, json_schema, max_completion_tokens) ==
  [model |-> model, messages |-> messages, json_schema |-> json_schema,
   max_completion_tokens |-> max_completion_tokens]

\* _parse_json_or_raise accepting a text whose braces enclose JSON
ParseJsonOrRaise_Span(text, ctx) ==
  IF text = <<>> \/ Strip(text) = <<>>
  THEN Raised(Err("empty_text", ctx))
  ELSE IF JsonLoads(text).ok THEN Returned(JsonLoads(text).v, <<>>)
  ELSE IF \E i, j \in 1..Len(text) :
            /\ i < j /\ text[i] = "{" /\ text[j] = "}"
            /\ JsonLoads(SubSeq(text, i, j)).ok
       THEN Returned(EmptyDict, <<>>)
  ELSE Raised([Err("malformed", ctx) EXCEPT
                 !.snippet = SubSeq(text, 1, Min(Len(text), SnippetLen))])

\* _parse_json_or_raise, malformed text: returns {} instead of raising
ParseJsonOrRaise_Lenient(text, ctx) ==
  IF text = <<>> \/ Strip(text) = <<>>
  THEN Raised(Err("empty_text", ctx))
  ELSE IF JsonLoads(text).ok THEN Returned(JsonLoads(text).v, <<>>)
  ELSE Returned(EmptyDict, <<>>)

ParseJsonOrRaise(text, ctx) ==
  IF text = <<>> \/ Strip(text) = <<>>
  THEN Raised(Err("empty_text", ctx))
  ELSE IF JsonLoads(text).ok THEN Returned(JsonLoads(text).v, <<>>)
  ELSE Raised([Err("malformed", ctx) EXCEPT
                 !.snippet = SubSeq(text, 1, Min(Len(text), SnippetLen))])

FirstChoiceDebugPayload(resp) ==
  IF resp.choices = <<>> THEN <<"no debug">>
  ELSE <<"finish_reason", resp.choices[1].fr>>

\* the part of call_core and call_view after the request is built
Complete(resp, ctx) ==
  IF resp.raised THEN Raised(Err("remote_error", ctx))
  ELSE IF resp.choices = <<>> THEN Raised(Err("index_error", ctx))
  ELSE LET text == IF resp.choices[1].isNone THEN <<>>
                   ELSE Strip(resp.choices[1].content)
       IN IF text = <<>> THEN Returned(EmptyDict, FirstChoiceDebugPayload(resp))
          ELSE [ParseJsonOrRaise(text, ctx) EXCEPT
                  !.dbg = FirstChoiceDebugPayload(resp)]

CoreRequest(m, compact_retry, who) ==
  BuildChatKwargs(m,
    <<[role |-> "system", content |-> <<"coach">>],
      [role |-> "user",
       content |-> <<IF compact_retry THEN "core-compact" ELSE "core-full", who>>]>>,
    "core_workout_schema",
    Min(MaxOutputTokens, IF compact_retry THEN CoreCompactTokens ELSE CoreTokens))

ViewRequest(m, compact_retry, who, core_compact) ==
  BuildChatKwargs(m,
    <<[role |-> "system", content |-> <<"writer">>],
      [role |-> "user",
       content |-> <<IF compact_retry THEN "view-compact" ELSE "view-full", who>>
                   \o core_compact]>>,
    "view_schema",
    Min(MaxOutputTokens, IF compact_retry THEN ViewCompactTokens ELSE ViewTokens))

CallCore(m, compact_retry, resp) == Complete(resp, "pass 1")

CallView(m, compact_retry, resp) == Complete(resp, "pass 2")

\* the attempts of a pass with the second one repeating the full instruction
AttemptPlan_RepeatFull(model) ==
  << [model |-> PrimaryModel(model), compact_retry |-> FALSE],
     [model |-> PrimaryModel(model), compact_retry |-> FALSE],
     [model |-> FallbackModel, compact_retry |-> TRUE] >>

\* the attempts of a pass, lines 288-292 and 333-337, in the order they are made

AttemptPlan(model) ==
  << [model |-> PrimaryModel(model), compact_retry |-> FALSE],
     [model |-> PrimaryModel(model), compact_retry |-> TRUE],
     [model |-> FallbackModel, compact_retry |-> TRUE] >>

LastAttempt == 3

\* `if not core:` / `if not view:`
IsEmptyResult(v) == ~Truthy(v)

\* the debug payloads of the attempts of a pass so far, in order
DebugOf(atts, pass) ==
  LET idx == {i \in 1..Len(atts) : atts[i].pass = pass}
      RECURSIVE Build(_)
      Build(i) == IF i > Len(atts) THEN <<>>
                  ELSE (IF i \in idx THEN <<atts[i].dbg>> ELSE <<>>) \o Build(i + 1)
  IN Build(1)

\* the error of three empty attempts: naming the first attempt only
EmptyError_FirstOnly(pass, ctx, atts) ==
  [Err("empty_all", ctx) EXCEPT !.debug = <<DebugOf(atts, pass)[1]>>]

EmptyError(pass, ctx, atts) ==
  [Err("empty_all", ctx) EXCEPT !.debug = DebugOf(atts, pass)]

\* the first of the four keys missing from core, or "" when none is
RECURSIVE FirstMissing(_, _)
FirstMissing(v, keys) ==
  IF keys = <<>> THEN ""
  ELSE IF ~HasKey(v, Head(keys)) THEN Head(keys)
  ELSE FirstMissing(v, Tail(keys))

TalkTemplate(who) ==
  <<IF who = "" THEN "athlete" ELSE who, ", this session is your next step."
   >>

\* talk_track = (view.get("talk_track") or "").strip(), templated when empty
TalkTrack(view, who) ==
  LET given == IF Truthy(Get(view, "talk_track", None))
               THEN StrStrip(Get(view, "talk_track", None).s) ELSE ""
  IN IF given = "" THEN TalkTemplate(who) ELSE <<given>>

TalkTyped(view) ==
  /\ IsDict(view)
  /\ Truthy(Get(view, "talk_track", None)) => Get(view, "talk_track", None).t = "str"

\* the returned dict with the remote fragment passed through
BuildPlan_RemoteFragment(c, view, who) ==
  [meta |-> c.o["meta"], summary |-> c.o["summary"], blocks |-> c.o["blocks"],
   titles_for_images |-> c.o["titles_for_images"],
   plan_html_fragment |-> <<Fmt(Get(view, "plan_html_fragment", JStr("")))>>,
   talk_track |-> TalkTrack(view, who)]

\* the returned dict keeping a remote fragment that has a container tag
BuildPlan_KeepsGoodFragment(c, view, who) ==
  [meta |-> c.o["meta"], summary |-> c.o["summary"], blocks |-> c.o["blocks"],
   titles_for_images |-> c.o["titles_for_images"],
   plan_html_fragment |->
     IF /\ Get(view, "plan_html_fragment", JStr("")).t = "str"
        /\ HasContainerTag(Get(view, "plan_html_fragment", JStr("")).s)
     THEN <<Get(view, "plan_html_fragment", JStr("")).s>>
     ELSE HtmlFragmentFromCore(c),
   talk_track |-> TalkTrack(view, who)]

\* the dict generate_workout_plan returns
BuildPlan(c, view, who) ==
  [meta |-> c.o["meta"], summary |-> c.o["summary"], blocks |-> c.o["blocks"],
   titles_for_images |-> c.o["titles_for_images"],
   plan_html_fragment |-> HtmlFragmentFromCore(c),
   talk_track |-> TalkTrack(view, who)]

\* lines 341-360 after a non-empty view: the plan, or the exception raised
Finish(c, view, who) ==
  IF ~FragmentTyped(c) THEN Raised(Err("attribute_error", "fragment"))
  ELSE IF ~TalkTyped(view) THEN Raised(Err("attribute_error", "talk_track"))
  ELSE [raised |-> FALSE, plan |-> BuildPlan(c, view, who)]

(***************************************************************************)
(* app.py: the sidebar form and the "Generate Workout Plan" button.        *)
(***************************************************************************)
NoPlan == [present |-> FALSE]

Stored(p) == [present |-> TRUE, value |-> p]

Idle == [pass |-> "idle", k |-> 0]

NoMsg == [kind |-> "none", text |-> ""]

NoRet == [kind |-> "none"]

Names == {"", "Sam", " Sam "}

\* `st.session_state.plan = plan; st.success(...)`
OnPlanReturned(old, p) ==
  [plan |-> Stored(p), msg |-> [kind |-> "success", text |-> "Plan generated."]]

\* the plan handler clearing the stored plan on failure
OnPlanFailed_DropsPlan(old, err) ==
  [plan |-> [present |-> FALSE],
   msg |-> [kind |-> "error", text |-> "Failed to generate plan"]]

\* the plan handler without its st.error
OnPlanFailed_Silent(old, err) ==
  [plan |-> old, msg |-> [kind |-> "none", text |-> ""]]

\* `except Exception as e: st.error(...)`
OnPlanFailed(old, err) ==
  [plan |-> old, msg |-> [kind |-> "error", text |-> "Failed to generate plan"]]

SaveSettings(n) ==
  /\ running /\ pc = Idle
  /\ name' = StrStrip(n)
  /\ msg' = [kind |-> "success", text |-> "Saved! Settings updated."]
  /\ UNCHANGED <<plan, running, pc, attempts, core, ret>>
  /\ UNCHANGED imgVars /\ UNCHANGED fnVars /\ UNCHANGED motVars

GenerateClicked ==
  /\ running /\ pc = Idle
  /\ IF name = ""
     THEN /\ msg' = [kind |-> "warning", text |-> "Please enter your name"]
          /\ UNCHANGED <<pc, attempts, core, ret>>
     ELSE /\ pc' = [pass |-> "core", k |-> 1]
          /\ attempts' = <<>>
          /\ core' = EmptyDict
          /\ ret' = NoRet
          /\ msg' = NoMsg
  /\ UNCHANGED <<name, plan, running>>
  /\ UNCHANGED imgVars /\ UNCHANGED fnVars /\ UNCHANGED motVars

\* the ladder going on to a further attempt after every empty result
MoreAttempts_Always(k) == TRUE

\* lines 289-293 and 334-338: an empty result of the first or the second
\* attempt is followed by a further attempt, one of the third by the raise
MoreAttempts(k) == k < LastAttempt

\* the call ends with an exception, which the handler catches
Fails(err) ==
  /\ ret' = [kind |-> "error", err |-> err]
  /\ pc' = Idle
  /\ plan' = OnPlanFailed(plan, err).plan
  /\ msg' = OnPlanFailed(plan, err).msg

Attempt(pass, k, req, resp, r) ==
  [pass |-> pass, k |-> k, req |-> req, resp |-> resp,
   raised |-> r.raised, v |-> r.v, dbg |-> r.dbg]

CoreAttempt(resp) ==
  /\ running /\ pc.pass = "core"
  /\ LET a    == AttemptPlan(AppModel)[pc.k]
         r    == CallCore(a.model, a.compact_retry, resp)
         atts == Append(attempts,
                   Attempt("core", pc.k,
                           CoreRequest(a.model, a.compact_retry, name), resp, r))
     IN /\ attempts' = atts
        /\ IF r.raised THEN Fails(r.err) /\ UNCHANGED core
           ELSE IF IsEmptyResult(r.v)
           THEN IF MoreAttempts(pc.k)
                THEN /\ pc' = [pass |-> "core", k |-> pc.k + 1]
                     /\ UNCHANGED <<plan, msg, ret, core>>
                ELSE Fails(EmptyError("core", "pass 1", atts)) /\ UNCHANGED core
           ELSE IF ~SupportsIn(r.v)
           THEN Fails(Err("type_error", "pass 1")) /\ core' = r.v
           ELSE IF FirstMissing(r.v, CoreKeys) # ""
           THEN /\ Fails([Err("missing_key", "pass 1") EXCEPT
                            !.key = FirstMissing(r.v, CoreKeys)])
                /\ core' = r.v
           ELSE /\ core' = r.v
                /\ pc' = [pass |-> "view", k |-> 1]
                /\ UNCHANGED <<plan, msg, ret>>
  /\ UNCHANGED <<name, running>>
  /\ UNCHANGED imgVars /\ UNCHANGED fnVars /\ UNCHANGED motVars

ViewAttempt(resp) ==
  /\ running /\ pc.pass = "view"
  /\ LET a    == AttemptPlan(AppModel)[pc.k]
         r    == CallView(a.model, a.compact_retry, resp)
         atts == Append(attempts,
                   Attempt("view", pc.k,
                           ViewRequest(a.model, a.compact_retry, name, Dumps(core)),
                           resp, r))
     IN /\ attempts' = atts
        /\ IF r.raised THEN Fails(r.err)
           ELSE IF IsEmptyResult(r.v)
           THEN IF MoreAttempts(pc.k)
                THEN /\ pc' = [pass |-> "view", k |-> pc.k + 1]
                     /\ UNCHANGED <<plan, msg, ret>>
                ELSE Fails(EmptyError("view", "pass 2", atts))
           ELSE LET f == Finish(core, r.v, name) IN
                IF f.raised THEN Fails(f.err)
                ELSE /\ ret' = [kind |-> "plan", plan |-> f.plan]
                     /\ pc' = Idle
                     /\ plan' = OnPlanReturned(plan, f.plan).plan
                     /\ msg' = OnPlanReturned(plan, f.plan).msg
  /\ UNCHANGED <<name, running, core>>
  /\ UNCHANGED imgVars /\ UNCHANGED fnVars /\ UNCHANGED motVars



(***************************************************************************)
(* utils/parse.py safe_filename.  A name is a sequence of characters.      *)
(***************************************************************************)
\* the characters \s matches
WsChars == {" ", "\t", "\n", "\r"}

\* the characters of .strip(" '\"\t\r\n")
StripChars == {" ", "'", "\"", "\t", "\r", "\n"}

\* the class [\\/<>:*?\"|]
HostileChars == {"\\", "/", "<", ">", ":", "*", "?", "\"", "|"}

NameCap == 120

PngSuffix == <<".", "p", "n", "g">>

\* re.sub(class+, repl, x): each maximal run of characters of the class
\* becomes one repl
SubRuns(x, class, repl) ==
  LET idx == SelectSeq([i \in 1..Len(x) |-> i],
                       LAMBDA i : x[i] \notin class \/ i = 1 \/ x[i - 1] \notin class)
  IN [j \in 1..Len(idx) |-> IF x[idx[j]] \in class THEN repl ELSE x[idx[j]]]

\* x.rstrip(chars)
RStripSet(x, chars) ==
  IF \A i \in 1..Len(x) : x[i] \in chars THEN <<>>
  ELSE SubSeq(x, 1, CHOOSE i \in 1..Len(x) :
                      x[i] \notin chars /\ \A j \in (i + 1)..Len(x) : x[j] \in chars)

\* x.lstrip(chars)
LStripSet(x, chars) ==
  IF \A i \in 1..Len(x) : x[i] \in chars THEN <<>>
  ELSE SubSeq(x, CHOOSE i \in 1..Len(x) :
                   x[i] \notin chars /\ \A j \in 1..(i - 1) : x[j] \in chars,
              Len(x))

StripSet(x, chars) == RStripSet(LStripSet(x, chars), chars)

\* safe_filename with the colon left out of the replaced class
SafeFilename_KeepsColon(nm, suffix) ==
  LET s1 == StripSet(SubRuns(nm, WsChars, " "), StripChars)
      s2 == SubRuns(s1, HostileChars \ {":"}, "_")
  IN RStripSet(SubSeq(s2, 1, Min(Len(s2), NameCap)), {"_"}) \o suffix

SafeFilename(nm, suffix) ==
  LET s1 == StripSet(SubRuns(nm, WsChars, " "), StripChars)
      s2 == SubRuns(s1, HostileChars, "_")
  IN RStripSet(SubSeq(s2, 1, Min(Len(s2), NameCap)), {"_"}) \o suffix

(***************************************************************************)
(* generate_image_dalle2 and the image buttons of app.py.                  *)
(***************************************************************************)
\* the characters of the exercise titles of the model
TitleChars(t) ==
  CASE t = "Squat" -> <<"S", "q", "u", "a", "t">>
    [] t = "Push/Pull" -> <<"P", "u", "s", "h", "/", "P", "u", "l", "l">>
    [] t = "Push:Pull" -> <<"P", "u", "s", "h", ":", "P", "u", "l", "l">>
    [] t = "Lunge" -> <<"L", "u", "n", "g", "e">>
    [] OTHER -> <<"x">>

\* a plan whose exercise titles repeat, carry whitespace, and collide once
\* sanitised
CoreImg ==
  Core(Summary("Pull Day"),
       JArr(<<Block("Warm-up", <<Exercise("Squat"), Exercise(" Squat ")>>),
              Block("Main", <<Exercise("Push/Pull"), Exercise("Push:Pull")>>),
              Block("Cool-down", <<Exercise("")>>)>>),
       JArr(<<JStr("Squat"), JStr("Push/Pull"), JStr("Push:Pull")>>))

ImgPlan == BuildPlan(CoreImg, View("<div>plan</div>", "Go Sam"), "Sam")

MaxTitles == 10

\* every exercise title of the blocks, in order
AllTitles(p) ==
  Concat([i \in 1..Len(p.blocks.a) |->
    [j \in 1..Len(Get(p.blocks.a[i], "exercises", JArr(<<>>)).a) |->
       LET t == Get(Get(p.blocks.a[i], "exercises", JArr(<<>>)).a[j], "title", None)
       IN IF Truthy(t) THEN StrStrip(t.s) ELSE ""]])

\* app.py lines 266-274: the stripped, non-empty titles, each once, ten at most
ExerciseTitles(p) ==
  LET all  == AllTitles(p)
      uniq == SelectSeq([i \in 1..Len(all) |-> i],
                LAMBDA i : all[i] # "" /\ \A j \in 1..(i - 1) : all[j] # all[i])
  IN [k \in 1..Min(Len(uniq), MaxTitles) |-> all[uniq[k]]]

\* line 386: whitespace collapsed, quoting characters stripped
TitleClean(chars) == StripSet(SubRuns(chars, WsChars, " "), StripChars)

\* lines 386-388: the file the image of a title is kept in
OutPath(t) == SafeFilename(TitleClean(TitleChars(t)), PngSuffix)

ImgPaths == {OutPath(ExerciseTitles(ImgPlan)[i]) : i \in 1..Len(ExerciseTitles(ImgPlan))}

\* a file of the image directory: absent, or its content as the chunks
\* written to it (a chunk of a hole left by a write past the end is 0)
NoFile == [exists |-> FALSE, data |-> <<>>]

File(data) == [exists |-> TRUE, data |-> data]

\* the body a download streams, as the chunks iter_content yields
Body(b) == [i \in 1..BodyChunks |-> b]

Sessions == {1}

\* responses of the image endpoint: an error, no data, an entry without a
\* URL, an entry with one
ApiResponses ==
  { [raised |-> TRUE, data |-> <<>>],
    [raised |-> FALSE, data |-> <<>>],
    [raised |-> FALSE, data |-> <<[url |-> "", isNone |-> TRUE]>>],
    [raised |-> FALSE, data |-> <<[url |-> "https://img/1", isNone |-> FALSE]>>] }

NoApi == [raised |-> FALSE, data |-> <<>>]

\* what requests.get gives: an exception, or a status and a body (the body
\* of a 404 is the error page of the server)
HttpResponses ==
  { [raised |-> TRUE, status |-> 0, body |-> <<>>],
    [raised |-> FALSE, status |-> 404, body |-> Body(1)] }
  \cup { [raised |-> FALSE, status |-> 200, body |-> Body(b)] : b \in 1..MaxBody }

NoHttp == [raised |-> FALSE, status |-> 0, body |-> <<>>]

HttpOk == 200

\* the frame of a generate_image_dalle2 call: its arguments and locals, where
\* it stands (none, fetch: before requests.get, write: inside the loop of
\* lines 430-432 with `off` chunks written, done), and how it ended
NoImg ==
  [pc |-> "none", title |-> "", force |-> FALSE, path |-> <<>>,
   existed |-> FALSE, asked |-> FALSE, api |-> NoApi, http |-> NoHttp,
   off |-> 0, kind |-> "none", via |-> "", err |-> ""]

ImgStart ==
  /\ files = [f \in ImgPaths |-> NoFile] /\ img = [s \in Sessions |-> NoImg]
  /\ apiCalls = 0 /\ downloads = 0

\* line 390 with the force flag ignored
CacheHit_IgnoresForce(exists, force_regen) == exists

\* line 390 never taking the cached file
CacheHit_Never(exists, force_regen) == FALSE

\* line 390: `if out_path.exists() and not force_regen`
CacheHit(exists, force_regen) == exists /\ ~force_regen

\* the image handlers with the exception escaping the script
OnImageFailed_Uncaught(old, err) ==
  [plan |-> old, msg |-> [kind |-> "error", text |-> "Image failed"],
   running |-> FALSE]

\* `except Exception as e: st.error(f"Image failed: {e}")`
OnImageFailed(old, err) ==
  [plan |-> old, msg |-> [kind |-> "error", text |-> "Image failed"],
   running |-> TRUE]

\* `st.toast(...); st.rerun()`
OnImageReady(old, path) ==
  [plan |-> old, msg |-> [kind |-> "toast", text |-> "Image ready"],
   running |-> TRUE]

\* the call of session s ends: the handler shows the result
ImageEnds(s, frame) ==
  LET h == IF frame.kind = "path" THEN OnImageReady(plan, frame.path)
           ELSE OnImageFailed(plan, frame.err)
  IN /\ img' = [img EXCEPT ![s] = [frame EXCEPT !.pc = "done"]]
     /\ plan' = h.plan /\ msg' = h.msg /\ running' = h.running

\* app.py lines 262-327: the image buttons of title t are rendered for
\* session s, whose script is not inside a call
ButtonShown(s, t) ==
  /\ running /\ pc = Idle /\ plan.present
  /\ img[s].pc \in {"none", "done"}
  /\ t \in Range(ExerciseTitles(plan.value))

\* a click on "Generate image" (force FALSE) or "Regenerate" (force TRUE) of
\* title t: generate_image_dalle2 up to the response of the image endpoint
ImageClicked(s, t, force, apiResp) ==
  /\ ButtonShown(s, t)
  /\ LET path  == OutPath(t)
         frame == [NoImg EXCEPT !.title = t, !.force = force, !.path = path,
                                !.existed = (files[path] # NoFile)]
     IN IF CacheHit(files[path] # NoFile, force)
        THEN /\ ImageEnds(s, [frame EXCEPT !.kind = "path", !.via = "cache"])
             /\ UNCHANGED <<apiCalls, downloads, files>>
        ELSE /\ apiCalls < MaxApiCalls
             /\ apiCalls' = apiCalls + 1
             /\ UNCHANGED <<downloads, files>>
             /\ LET sent == [frame EXCEPT !.asked = TRUE, !.api = apiResp] IN
                IF apiResp.raised
                THEN ImageEnds(s, [sent EXCEPT !.kind = "error", !.err = "remote_error"])
                ELSE IF apiResp.data = <<>>
                THEN ImageEnds(s, [sent EXCEPT !.kind = "error", !.err = "no_url"])
                ELSE /\ img' = [img EXCEPT ![s] = [sent EXCEPT !.pc = "fetch"]]
                     /\ UNCHANGED <<plan, msg, running>>
  /\ UNCHANGED <<name, pc, attempts, core, ret>> /\ UNCHANGED fnVars /\ UNCHANGED motVars

\* line 427 accepting every status
StatusOk_Any(status) == TRUE

\* line 427: `if r.status_code != 200: raise RuntimeError(...)`
StatusOk(status) == status = HttpOk

\* lines 426-429: the download; on status 200 the file is opened for
\* writing, which creates it or empties it
ImageFetch(s, httpResp) ==
  /\ running /\ img[s].pc = "fetch"
  /\ LET frame == img[s] IN
     IF frame.api.data[1].isNone
     THEN /\ ImageEnds(s, [frame EXCEPT !.kind = "error", !.err = "invalid_url"])
          /\ UNCHANGED <<downloads, files>>
     ELSE /\ downloads' = downloads + 1
          /\ IF httpResp.raised
             THEN /\ ImageEnds(s, [frame EXCEPT !.http = httpResp, !.kind = "error",
                                                !.err = "requests_error"])
                  /\ UNCHANGED files
             ELSE IF ~StatusOk(httpResp.status)
             THEN /\ ImageEnds(s, [frame EXCEPT !.http = httpResp, !.kind = "error",
                                                !.err = "http_status"])
                  /\ UNCHANGED files
             ELSE /\ files' = [files EXCEPT ![frame.path] = File(<<>>)]
                  /\ img' = [img EXCEPT ![s] =
                               [frame EXCEPT !.http = httpResp, !.pc = "write"]]
                  /\ UNCHANGED <<plan, msg, running>>
  /\ UNCHANGED <<name, pc, attempts, core, ret, apiCalls>> /\ UNCHANGED fnVars /\ UNCHANGED motVars

\* f.write(chunk) through a descriptor whose offset is `off`: the chunk
\* replaces what is there, or extends the file, leaving a hole before it
\* when the file is shorter than the offset
WriteAt(data, off, chunk) ==
  [i \in 1..(IF Len(data) > off + 1 THEN Len(data) ELSE off + 1) |->
     IF i = off + 1 THEN chunk
     ELSE IF i <= Len(data) THEN data[i] ELSE 0]

\* lines 430-434: one chunk is written; after the last one the call returns
ImageWrite(s) ==
  /\ running /\ img[s].pc = "write"
  /\ LET frame == img[s]
         chunk == frame.http.body[frame.off + 1]
         data  == WriteAt(files[frame.path].data, frame.off, chunk)
     IN /\ files' = [files EXCEPT ![frame.path] = File(data)]
        /\ IF frame.off + 1 < Len(frame.http.body)
           THEN /\ img' = [img EXCEPT ![s] = [frame EXCEPT !.off = frame.off + 1]]
                /\ UNCHANGED <<plan, msg, running>>
           ELSE ImageEnds(s, [frame EXCEPT !.off = frame.off + 1, !.kind = "path",
                                           !.via = "download"])
  /\ UNCHANGED <<name, pc, attempts, core, ret, apiCalls, downloads>>
  /\ UNCHANGED fnVars /\ UNCHANGED motVars

\* a session holding a generated plan, over an image directory that earlier
\* runs may have filled
InitImage ==
  /\ name = "Sam" /\ plan = Stored(ImgPlan) /\ msg = NoMsg /\ running = TRUE
  /\ pc = Idle /\ attempts = <<>> /\ core = EmptyDict /\ ret = NoRet
  /\ files \in [ImgPaths -> {NoFile, File(Body(1))}]
  /\ img = [s \in Sessions |-> NoImg]
  /\ apiCalls = 0 /\ downloads = 0
  /\ fnIn = <<>> /\ fnOut = <<>> /\ fnDone = FALSE
  /\ MotStart

NextImage ==
  \/ \E s \in Sessions, t \in Range(ExerciseTitles(ImgPlan)), force \in BOOLEAN,
        apiResp \in ApiResponses : ImageClicked(s, t, force, apiResp)
  \/ \E s \in Sessions, httpResp \in HttpResponses : ImageFetch(s, httpResp)
  \/ \E s \in Sessions : ImageWrite(s)

SpecImage == InitImage /\ [][NextImage]_vars

\* a fresh session: _init_state, no plan, no call in progress
PlanStart ==
  /\ name = "" /\ plan = NoPlan /\ msg = NoMsg /\ running = TRUE
  /\ pc = Idle /\ attempts = <<>> /\ core = EmptyDict /\ ret = NoRet

FnStart ==
  /\ fnIn = <<>> /\ fnOut = <<>> /\ fnDone = FALSE

InitPlan == PlanStart /\ ImgStart /\ FnStart /\ MotStart

NextPlan ==
  \/ \E n \in Names : SaveSettings(n)
  \/ GenerateClicked
  \/ \E resp \in CoreResponses : CoreAttempt(resp)
  \/ \E resp \in ViewResponses : ViewAttempt(resp)

SpecPlan == InitPlan /\ [][NextPlan]_vars
(***************************************************************************)
(* safe_filename applied on its own to a name.                             *)
(***************************************************************************)
\* the names safe_filename is applied to: a free part of every shape up to
\* MaxNameLen, alone or behind letters that reach the length cap
NameAlphabet == HostileChars \cup {"a", " ", "\t", "'", "_"}

FreeNames == UNION {[1..k -> NameAlphabet] : k \in 0..MaxNameLen}

NameInputs ==
  {[i \in 1..n |-> "a"] \o f : n \in {0, NameCap - 1}, f \in FreeNames}

ApplySafeFilename ==
  /\ ~fnDone
  /\ fnOut' = SafeFilename(fnIn, PngSuffix)
  /\ fnDone' = TRUE
  /\ UNCHANGED fnIn /\ UNCHANGED planVars /\ UNCHANGED imgVars
  /\ UNCHANGED motVars

InitFilename ==
  /\ PlanStart /\ ImgStart /\ MotStart
  /\ fnIn \in NameInputs /\ fnOut = <<>> /\ fnDone = FALSE

NextFilename == ApplySafeFilename

SpecFilename == InitFilename /\ [][NextFilename]_vars

\* C9: safe_filename(name, ".png") ends in ".png" and contains no slash,
\* backslash, colon, asterisk, question mark, double quote, angle bracket or
\* pipe, for every name.
C9_SafeName ==
  fnDone =>
    /\ Len(fnOut) >= 4
    /\ SubSeq(fnOut, Len(fnOut) - 3, Len(fnOut)) = <<".", "p", "n", "g">>
    /\ \A i \in 1..Len(fnOut) :
         fnOut[i] \notin {"/", "\\", ":", "*", "?", "\"", "<", ">", "|"}

\* a name longer than the cap, with a colon in it, has been sanitised
C9_Witness ==
  /\ fnDone
  /\ Len(fnIn) = NameCap + 1
  /\ fnIn[NameCap] = ":"
  /\ fnIn[NameCap + 1] = "a"
  /\ fnOut = [i \in 1..(NameCap - 1) |-> "a"] \o <<".", "p", "n", "g">>

(***************************************************************************)
(* _parse_json_or_raise applied on its own to a text.                      *)
(***************************************************************************)
TextAlphabet == {"{", "}", "k", ":", "1", "Note"}

\* every text of up to MaxTextLen tokens, and some longer ones: responses
\* of the endpoint, JSON wrapped in prose or whitespace, prose longer than
\* the snippet
TextInputs ==
  UNION {[1..n -> TextAlphabet] : n \in 0..MaxTextLen}
  \cup {Dumps(CoreA), Wrapped(CoreA), Truncated(CoreA),
        <<" ", "{", "k", ":", "1", "}", "\n">>, <<" ", "\n">>,
        <<"Note", "{", "k", ":", "{", "}", "}", "Note">>,
        [i \in 1..(SnippetLen + 1) |-> "Sorry"]}

ApplyParse ==
  /\ ~fnDone
  /\ fnOut' = ParseJsonOrRaise(fnIn, "pass 1")
  /\ fnDone' = TRUE
  /\ UNCHANGED fnIn /\ UNCHANGED planVars /\ UNCHANGED imgVars
  /\ UNCHANGED motVars

InitParse ==
  /\ PlanStart /\ ImgStart /\ MotStart
  /\ fnIn \in TextInputs /\ fnOut = Returned(EmptyDict, <<>>) /\ fnDone = FALSE

NextParse == ApplyParse

SpecParse == InitParse /\ [][NextParse]_vars

\* the first top-level brace-delimited span of a text: from its first "{"
\* to the "}" that closes it; <<>> when there is none
RECURSIVE CloseOf(_, _, _)
CloseOf(text, i, depth) ==
  IF i > Len(text) THEN 0
  ELSE IF text[i] = "{" THEN CloseOf(text, i + 1, depth + 1)
  ELSE IF text[i] = "}"
       THEN (IF depth = 1 THEN i ELSE CloseOf(text, i + 1, depth - 1))
  ELSE CloseOf(text, i + 1, depth)

FirstBraceSpan(text) ==
  IF \A i \in 1..Len(text) : text[i] # "{" THEN <<>>
  ELSE LET open == CHOOSE i \in 1..Len(text) :
                     text[i] = "{" /\ \A j \in 1..(i - 1) : text[j] # "{"
           close == CloseOf(text, open + 1, 1)
       IN IF close = 0 THEN <<>> ELSE SubSeq(text, open, close)

SpanParses(text) ==
  FirstBraceSpan(text) # <<>> /\ JsonLoads(FirstBraceSpan(text)).ok

\* C10 as stated: a text that is not JSON is searched for its first
\* top-level brace-delimited span, which is parsed instead; the validator
\* fails only if the direct parse and the span parse both fail.
C10_SpanFallback ==
  (fnDone /\ Strip(fnIn) # <<>>) =>
    /\ (~JsonLoads(fnIn).ok /\ SpanParses(fnIn)) =>
         (~fnOut.raised /\ fnOut.v = JsonLoads(FirstBraceSpan(fnIn)).v)
    /\ fnOut.raised => (~JsonLoads(fnIn).ok /\ ~SpanParses(fnIn))

\* C10 as amended: a text that is not blank is parsed directly and only so;
\* the validator returns the parsed value when the text is JSON and fails
\* with the malformed-response error otherwise, also when a brace-delimited
\* span of the text is JSON; the error carries the first SnippetLen tokens.
C10_DirectParseOnly ==
  (fnDone /\ Strip(fnIn) # <<>>) =>
    /\ fnOut.raised <=> ~JsonLoads(fnIn).ok
    /\ ~fnOut.raised => fnOut.v = JsonLoads(fnIn).v
    /\ fnOut.raised =>
         /\ fnOut.err.kind = "malformed"
         /\ Len(fnOut.err.snippet) <= SnippetLen
         /\ fnOut.err.snippet = SubSeq(fnIn, 1, Len(fnOut.err.snippet))
         /\ Len(fnOut.err.snippet) < SnippetLen => fnOut.err.snippet = fnIn

\* prose around a JSON object was given, and the validator failed
C10_Witness ==
  /\ fnDone
  /\ fnIn = <<"Note", "{", "k", ":", "{", "}", "}", "Note">>
  /\ SpanParses(fnIn)
  /\ fnOut.raised /\ fnOut.err.kind = "malformed"

(***************************************************************************)
(* Properties of generate_workout_plan, checked under SpecPlan.            *)
(***************************************************************************)
PassOf(pass) == SelectSeq(attempts, LAMBDA a : a.pass = pass)

\* what the user message of a request asks for
Instruction(a) == a.req.messages[2].content[1]

\* an attempt that returned nothing: no content, blank text, or a JSON value
\* Python treats as false
ReturnedEmpty(a) == ~a.raised /\ ~Truthy(a.v)

ReturnedNonEmpty(a) == ~a.raised /\ Truthy(a.v)

\* the text of a response, before it is stripped; <<>> when it has none
TextOf(resp) ==
  IF resp.raised \/ resp.choices = <<>> \/ resp.choices[1].isNone THEN <<>>
  ELSE resp.choices[1].content

PassCtx(pass) == IF pass = "core" THEN "pass 1" ELSE "pass 2"

C3_MalformedFailsFast ==
  \A i \in 1..Len(attempts) :
    (Strip(TextOf(attempts[i].resp)) # <<>> /\ ~JsonLoads(TextOf(attempts[i].resp)).ok)
      => /\ i = Len(attempts)
         /\ pc = Idle
         /\ ret.kind = "error" /\ ret.err.kind = "malformed"
         /\ ret.err.ctx = PassCtx(attempts[i].pass)

\* the second attempt of the view pass returned JSON wrapped in prose
C3_Witness ==
  /\ Len(PassOf("view")) = 2
  /\ Strip(TextOf(PassOf("view")[2].resp)) # <<>>
  /\ ~JsonLoads(TextOf(PassOf("view")[2].resp)).ok
  /\ ret.kind = "error"

\* C7: every plan returned has exactly 3 blocks and each of its exercise
\* records carries all ten declared fields.
C7_PlanShape ==
  ret.kind = "plan" =>
    /\ Len(ret.plan.blocks.a) = 3
    /\ \A i \in 1..Len(ret.plan.blocks.a) :
         \A j \in 1..Len(Get(ret.plan.blocks.a[i], "exercises", JArr(<<>>)).a) :
           ExFields \subseteq
             DOMAIN Get(ret.plan.blocks.a[i], "exercises", JArr(<<>>)).a[j].o

\* the pieces of a fragment that follow the piece `tag`, in order
RECURSIVE After(_, _)
After(frag, tag) ==
  IF Len(frag) < 2 THEN <<>>
  ELSE (IF frag[1] = tag THEN <<frag[2]>> ELSE <<>>) \o After(Tail(frag), tag)

\* the remote fragment of the view the plan was built from
RemoteFragment == Get(attempts[Len(attempts)].v, "plan_html_fragment", JStr(""))

\* C8: when the view pass returned a fragment that is empty or has no
\* container tag, the returned plan carries the locally built fragment: a
\* section whose title is the summary title of the core data and whose block
\* headings are the names of the blocks of the core data, in order.
C8_LocalFragment ==
  (ret.kind = "plan" /\ (RemoteFragment.t # "str" \/ RemoteFragment.s = ""
                         \/ ~HasContainerTag(RemoteFragment.s))) =>
    LET frag == ret.plan.plan_html_fragment IN
    /\ frag[1] = "<section id=workout-plan class=wp-wrap>"
    /\ frag[Len(frag)] = "</section>"
    /\ "title" \in DOMAIN core.o["summary"].o =>
         After(frag, "<h2 class=wp-title>") = <<core.o["summary"].o["title"].s>>
    /\ Len(After(frag, "<h3>")) = Len(core.o["blocks"].a)
    /\ \A i \in 1..Len(core.o["blocks"].a) :
         "name" \in DOMAIN core.o["blocks"].a[i].o =>
           After(frag, "<h3>")[i] = core.o["blocks"].a[i].o["name"].s

\* a plan of three named blocks was returned although the remote fragment
\* had no container tag
C8_Witness ==
  /\ ret.kind = "plan"
  /\ RemoteFragment = JStr("plan")
  /\ Len(core.o["blocks"].a) = 3
  /\ After(ret.plan.plan_html_fragment, "<h3>") = <<"Warm-up", "Main", "Cool-down">>

(***************************************************************************)
(* Properties of generate_image_dalle2 and the image buttons, checked      *)
(* under SpecImage.                                                        *)
(***************************************************************************)
\* the step is the start of a generate_image_dalle2 call of session s
Calls(s) == img[s].pc \in {"none", "done"} /\ img'[s] # img[s]

\* C4: for every exercise title, a call with force_regen false made while the
\* file of the title exists sends no request to the image endpoint, downloads
\* nothing, leaves the image directory as it was and returns the path of the
\* file.
C4_CachedNoNetwork ==
  [][\A s \in Sessions :
       (Calls(s) /\ ~img'[s].force /\ files[OutPath(img'[s].title)] # NoFile)
         => /\ apiCalls' = apiCalls /\ downloads' = downloads
            /\ files' = files
            /\ img'[s].pc = "done" /\ img'[s].kind = "path"
            /\ img'[s].path = OutPath(img'[s].title)]_vars

\* the image of "Push:Pull" was served from the file an earlier call for
\* "Push/Pull" or "Push:Pull" had downloaded
C4_Witness ==
  \E s \in Sessions :
    /\ img[s].pc = "done" /\ img[s].title = "Push:Pull" /\ ~img[s].force
    /\ img[s].existed /\ img[s].kind = "path" /\ img[s].via = "cache"
    /\ files[img[s].path] = File(Body(2)) /\ apiCalls = 1 /\ downloads = 1

\* C5: a call with force_regen true made while the file of the title exists
\* always sends a request to the image endpoint; when the endpoint gives a
\* URL and the download answers 200, the file at the same sanitised path
\* holds the downloaded body afterwards and that path is returned.
C5_ForcedRegenerates ==
  [][\A s \in Sessions :
       /\ (Calls(s) /\ img'[s].force /\ files[OutPath(img'[s].title)] # NoFile)
            => /\ apiCalls' = apiCalls + 1
               /\ img'[s].asked
       /\ (/\ img[s].pc \in {"fetch", "write"} /\ img[s].force /\ img[s].existed
           /\ img'[s].pc = "done"
           /\ ~img'[s].http.raised /\ img'[s].http.status = HttpOk)
            => /\ img'[s].kind = "path"
               /\ img'[s].path = OutPath(img[s].title)
               /\ files'[OutPath(img[s].title)] = File(img'[s].http.body)
               /\ img'[s].http.body \in {Body(b) : b \in 1..MaxBody}
               /\ \A f \in DOMAIN files \ {OutPath(img[s].title)} : files'[f] = files[f]]_vars

\* the only request so far was a forced one over a cached file of body 1,
\* and the file now holds the downloaded body 2
C5_Witness ==
  \E s \in Sessions :
    /\ img[s].pc = "done" /\ img[s].force /\ img[s].existed
    /\ img[s].kind = "path" /\ img[s].via = "download"
    /\ img[s].http.body = Body(2) /\ files[img[s].path] = File(Body(2))
    /\ apiCalls = 1 /\ downloads = 1

\* the endpoint answered without a URL
MissingUrl(f) ==
  f.asked /\ ~f.api.raised /\ (f.api.data = <<>> \/ f.api.data[1].isNone)

\* the download answered with a status other than 200
BadStatus(f) == ~f.http.raised /\ f.http.status \notin {NoHttp.status, HttpOk}

\* C6: a call that met a missing URL or a non-200 status ends with an error;
\* the step in which it ends leaves the plan of the session and the image
\* directory as they were, and afterwards the script is still running, the
\* plan is still held, and the image buttons of every exercise title of the
\* plan are shown.
C6_FailureConfined ==
  /\ [](\A s \in Sessions :
          (img[s].pc = "done" /\ (MissingUrl(img[s]) \/ BadStatus(img[s])))
            => /\ img[s].kind = "error"
               /\ running /\ plan.present
               /\ \A t \in Range(AllTitles(ImgPlan)) \ {""} : ButtonShown(s, t))
  /\ [][\A s \in Sessions :
          (img'[s] # img[s] /\ img'[s].pc = "done"
             /\ (MissingUrl(img'[s]) \/ BadStatus(img'[s])))
            => plan' = plan /\ files' = files]_vars

\* the download for "Squat" answered 404 while the image of another title is
\* still to be made
C6_Witness ==
  \E s \in Sessions :
    /\ img[s].pc = "done" /\ img[s].title = "Squat" /\ BadStatus(img[s])
    /\ img[s].kind = "error" /\ img[s].err = "http_status"
    /\ plan = Stored(ImgPlan) /\ running
    /\ files[OutPath("Push/Pull")] = NoFile /\ apiCalls < MaxApiCalls

(***************************************************************************)
(* Further properties of generate_workout_plan, checked under SpecPlan.    *)
(***************************************************************************)
\* the value the view pass ended with
ViewResult == attempts[Len(attempts)].v

\* the name the call was made with, as its last request carries it
Who == attempts[Len(attempts)].req.messages[2].content[2]

\* the top-level keys the renderer reads from the core data, and from a plan
RendererCoreKeys == {"meta", "summary", "blocks", "titles_for_images"}

RendererKeys == RendererCoreKeys \cup {"plan_html_fragment", "talk_track"}

\* C11 as claimed: a plan is returned only when the core value has the four
\* core keys and the view value has plan_html_fragment and talk_track.
C11_AllKeysVerified ==
  ret.kind = "plan" =>
    /\ \A k \in RendererCoreKeys : HasKey(core, k)
    /\ \A k \in ViewKeys : HasKey(ViewResult, k)

\* C11 amended: a core value that is not empty and lacks one of meta,
\* summary, blocks, titles_for_images ends the call with an error and no
\* plan; a returned plan comes from a core value with the four keys and
\* carries the six keys of the plan whatever keys the view value had, with
\* the templated talk track when the view value has none.
C11_CoreKeysVerified ==
  /\ \A i \in 1..Len(attempts) :
       (attempts[i].pass = "core" /\ ReturnedNonEmpty(attempts[i])
          /\ \E k \in RendererCoreKeys : ~HasKey(attempts[i].v, k))
         => /\ i = Len(attempts) /\ pc = Idle
            /\ ret.kind = "error"
            /\ ret.err.kind \in {"missing_key", "type_error"}
  /\ ret.kind = "plan" =>
       /\ IsDict(core) /\ RendererCoreKeys \subseteq DOMAIN core.o
       /\ DOMAIN ret.plan = RendererKeys
       /\ ~HasKey(ViewResult, "talk_track") => ret.plan.talk_track = TalkTemplate(Who)

\* a plan was returned from a view value without plan_html_fragment
C11_Witness ==
  /\ ret.kind = "plan"
  /\ IsDict(ViewResult) /\ ~HasKey(ViewResult, "plan_html_fragment")
  /\ Len(ret.plan.plan_html_fragment) > 0

(***************************************************************************)
(* generate_motivation_and_tts and the "Generate Motivation" button.       *)
(***************************************************************************)
\* the keyword-only parameters of the function; tts_voice has a default
MotivationParams ==
  {"name", "meta", "summary", "assets_text_log", "assets_audio_dir", "tts_voice"}

MotivationRequired == MotivationParams \ {"tts_voice"}

\* app.py lines 421-431: the keywords the button passes
AppMotivationKeywords == MotivationParams \cup {"text_model", "max_speech_tokens"}

\* the dict of line 451
StubResult ==
  JObj([k \in {"ok", "note"} |->
    IF k = "ok" THEN JLit("true") ELSE JStr("Will be implemented in Step 4.")])

\* the call: Python binds the keywords, then lines 449-451 run.  The result
\* carries the log and the audio directory as the call leaves them.
GenerateMotivationAndTts(keywords, log, dir) ==
  IF ~(keywords \subseteq MotivationParams /\ MotivationRequired \subseteq keywords)
  THEN [raised |-> TRUE, err |-> "type_error", v |-> None, log |-> log, dir |-> dir]
  ELSE [raised |-> FALSE, err |-> "", v |-> StubResult, log |-> log, dir |-> dir]

\* app.py lines 433-440: what the handler leaves on the page.  A result
\* without audio_path or text_log_path raises KeyError inside the try.
OnMotivation(r) ==
  IF r.raised
  THEN [kind |-> "error", text |-> "Motivation failed"]
  ELSE IF ~Truthy(Get(r.v, "ok", None))
  THEN [kind |-> "error", text |-> "Failed to create motivation."]
  ELSE IF ~(HasKey(r.v, "audio_path") /\ HasKey(r.v, "text_log_path"))
  THEN [kind |-> "error", text |-> "Motivation failed"]
  ELSE [kind |-> "success", text |-> "Motivation ready!"]

\* app.py lines 409-440
MotivationClicked ==
  /\ running /\ pc = Idle
  /\ IF ~plan.present
     THEN /\ msg' = [kind |-> "warning", text |-> "Please generate a workout plan first."]
          /\ UNCHANGED motVars
     ELSE LET r == GenerateMotivationAndTts(AppMotivationKeywords, motLog, audio) IN
          /\ motLog' = r.log /\ audio' = r.dir
          /\ msg' = OnMotivation(r)
          /\ mot' = [kind |-> IF r.raised THEN "raised" ELSE "returned",
                     by |-> "button", err |-> r.err, v |-> r.v,
                     shown |-> OnMotivation(r)]
  /\ UNCHANGED <<name, plan, running, pc, attempts, core, ret>>
  /\ UNCHANGED imgVars /\ UNCHANGED fnVars

\* the function called with the keywords it declares
MotivationCalled(keywords) ==
  /\ running /\ pc = Idle
  /\ LET r == GenerateMotivationAndTts(keywords, motLog, audio) IN
     /\ motLog' = r.log /\ audio' = r.dir
     /\ mot' = [kind |-> IF r.raised THEN "raised" ELSE "returned",
                by |-> "call", err |-> r.err, v |-> r.v, shown |-> NoMsg]
  /\ UNCHANGED planVars /\ UNCHANGED imgVars /\ UNCHANGED fnVars

\* earlier entries of the log and earlier audio files
OldLogs == {<<>>, <<"Sam, keep going.">>}

OldAudio == {{}, {"motivation_1.mp3"}}

InitMotivation ==
  /\ name \in {"", "Sam"} /\ plan \in {NoPlan, Stored(ImgPlan)}
  /\ msg = NoMsg /\ running = TRUE
  /\ pc = Idle /\ attempts = <<>> /\ core = EmptyDict /\ ret = NoRet
  /\ ImgStart /\ FnStart
  /\ motLog \in OldLogs /\ audio \in OldAudio /\ mot = NoMot

NextMotivation ==
  \/ \E n \in Names : SaveSettings(n)
  \/ MotivationClicked
  \/ \E keywords \in {MotivationParams, MotivationRequired} : MotivationCalled(keywords)

SpecMotivation == InitMotivation /\ [][NextMotivation]_vars

\* C12: a generate_motivation_and_tts call that returned with a truthy ok
\* flag has appended an entry to the log, saved a new file in the audio
\* directory and returned the audio path and the log path; and a click on
\* "Generate Motivation" while a plan is held ends in the success message.
C12_MotivationDelivered ==
  /\ (mot.kind = "returned" /\ Truthy(Get(mot.v, "ok", None)))
       => /\ motLog \notin OldLogs
          /\ audio \notin OldAudio
          /\ HasKey(mot.v, "audio_path") /\ HasKey(mot.v, "text_log_path")
  /\ (mot.kind # "none" /\ mot.by = "button") => mot.shown.kind = "success"

(***************************************************************************)
(* Two sessions that hold the same plan and share the image directory.     *)
(* Each runs the script in a thread of its own; nothing orders their       *)
(* calls of generate_image_dalle2.                                         *)
(***************************************************************************)
Users == {1, 2}

InitRace ==
  /\ name = "Sam" /\ plan = Stored(ImgPlan) /\ msg = NoMsg /\ running = TRUE
  /\ pc = Idle /\ attempts = <<>> /\ core = EmptyDict /\ ret = NoRet
  /\ files = [f \in ImgPaths |-> NoFile] /\ img = [s \in Users |-> NoImg]
  /\ apiCalls = 0 /\ downloads = 0
  /\ FnStart /\ MotStart

\* each session makes one call
NextRace ==
  \/ \E s \in Users, t \in Range(ExerciseTitles(ImgPlan)), force \in BOOLEAN,
        apiResp \in ApiResponses :
          img[s].pc = "none" /\ ImageClicked(s, t, force, apiResp)
  \/ \E s \in Users, httpResp \in HttpResponses : ImageFetch(s, httpResp)
  \/ \E s \in Users : ImageWrite(s)

SpecRace == InitRace /\ [][NextRace]_vars

\* sessions s and u ran non-forced calls for one title, both found no file,
\* and u has returned after downloading
Raced(s, u) ==
  /\ s # u /\ img[u].title = img[s].title
  /\ ~img[s].force /\ ~img[u].force /\ ~img[s].existed /\ ~img[u].existed
  /\ img[u].pc = "done" /\ img[u].via = "download"

\* C13: when two non-forced calls for one title both found no file and both
\* downloaded, the file holds, once the second of them has made its last
\* write and returned, the body that call downloaded; and a step changes no
\* file other than the one at the sanitised path of a call in progress.
C13_LastWriteWins ==
  /\ [][\A s \in DOMAIN img : \A u \in DOMAIN img :
          (Raced(s, u) /\ img[s].pc = "write" /\ img'[s].pc = "done")
            => files'[img[s].path] = File(img[s].http.body)]_vars
  /\ [][\A f \in DOMAIN files :
          files'[f] # files[f]
            => \E s \in DOMAIN img :
                 img[s].pc \in {"fetch", "write"} /\ f = OutPath(img[s].title)]_vars

(***************************************************************************)
(* The whole page: the plan button, the image buttons and the motivation   *)
(* button of one session, from a fresh start.                              *)
(***************************************************************************)
\* core responses: an exception, no content, prose around the JSON, a plan
CoreResponsesApp ==
  { RemoteError, Resp(NoneChoice("length")),
    Resp(Choice(Wrapped(CoreImg), "stop")),
    Resp(Choice(Dumps(CoreImg), "stop")) }

ViewResponsesApp ==
  { RemoteError, Resp(Choice(Dumps(View("<div>plan</div>", "Go Sam")), "stop")) }

InitApp ==
  /\ name = "Sam" /\ plan = NoPlan /\ msg = NoMsg /\ running = TRUE
  /\ pc = Idle /\ attempts = <<>> /\ core = EmptyDict /\ ret = NoRet
  /\ ImgStart /\ FnStart /\ MotStart

\* no generate_image_dalle2 call is in progress
ImgIdle == \A s \in DOMAIN img : img[s].pc \in {"none", "done"}

\* the script handles one click at a time; the image buttons used are those
\* of the first exercise
NextApp ==
  \/ ImgIdle /\ GenerateClicked
  \/ \E resp \in CoreResponsesApp : CoreAttempt(resp)
  \/ \E resp \in ViewResponsesApp : ViewAttempt(resp)
  \/ \E s \in Sessions, force \in BOOLEAN, apiResp \in ApiResponses :
        ImageClicked(s, ExerciseTitles(ImgPlan)[1], force, apiResp)
  \/ \E s \in Sessions, httpResp \in HttpResponses : ImageFetch(s, httpResp)
  \/ \E s \in Sessions : ImageWrite(s)
  \/ ImgIdle /\ MotivationClicked

SpecApp == InitApp /\ [][NextApp]_vars

\* the step ends a call of generate_workout_plan with an exception
PlanCallFails == ret' # ret /\ ret'.kind = "error"

\* the step ends a call of generate_image_dalle2 of session s with an exception
ImageCallFails(s) == img'[s] # img[s] /\ img'[s].pc = "done" /\ img'[s].kind = "error"

\* the step is a click on "Generate Motivation" whose call raised
MotivationCallFails == mot' # mot /\ mot'.kind = "raised" /\ mot'.by = "button"

\* C14: a step in which the call made by a button ends with an exception
\* (plan generation, image generation or regeneration, motivation) leaves an
\* error message on the page; the script is never ended, and after the
\* failure it is idle again, so that the buttons are handled as before.
C14_FailuresCaught ==
  /\ [](running /\ (ret.kind = "error" => pc = Idle))
  /\ [][(PlanCallFails \/ MotivationCallFails
           \/ \E s \in DOMAIN img : ImageCallFails(s))
          => /\ msg'.kind = "error"
             /\ running' /\ pc' = Idle /\ ImgIdle'
             /\ plan' = plan]_vars

\* after a remote error in plan generation a plan was generated, an image
\* download failed, and the motivation click failed last
C14_Witness ==
  /\ plan.present /\ ret.kind = "plan"
  /\ img[1].pc = "done" /\ img[1].kind = "error" /\ img[1].err = "requests_error"
  /\ mot.kind = "raised" /\ mot.by = "button"
  /\ msg = [kind |-> "error", text |-> "Motivation failed"]

\* the response of an attempt carried text that json.loads accepts
Parseable(a) ==
  /\ Strip(TextOf(a.resp)) # <<>>
  /\ JsonLoads(Strip(TextOf(a.resp))).ok

\* the response of an attempt carried no text: an exception aside, the
\* content was None or blank
NoText(a) ==
  /\ ~a.resp.raised /\ a.resp.choices # <<>>
  /\ Strip(TextOf(a.resp)) = <<>>

\* C15: in each pass an attempt is followed by another one only if its
\* response text was empty, and an attempt whose text was empty is followed
\* by another one unless it was the third; so a response with text that
\* parses, to whatever JSON value, is the last attempt of its pass and the
\* call does not end with the empty-response error of that pass.
C15_RetryIffTextEmpty ==
  \A pass \in {"core", "view"} :
    LET q == PassOf(pass) IN
    \A i \in 1..Len(q) :
      /\ i < Len(q) => NoText(q[i])
      /\ (NoText(q[i]) /\ i < LastAttempt /\ pc = Idle) => i < Len(q)
      /\ Parseable(q[i])
           => /\ i = Len(q)
              /\ ~(ret.kind = "error" /\ ret.err.kind = "empty_all"
                     /\ ret.err.ctx = PassCtx(pass))

\* C16: the third attempt of a pass names a model other than the one the
\* first two attempts name, and its request differs from the second request.
C16_FallbackDiffers ==
  \A pass \in {"core", "view"} :
    LET q == PassOf(pass) IN
    Len(q) = LastAttempt =>
      /\ q[1].req.model = q[2].req.model
      /\ q[3].req.model # q[2].req.model
      /\ q[3].req # q[2].req

\* the value the core pass ended with
CoreResult == PassOf("core")[Len(PassOf("core"))]

\* C17: a view request is issued only after the core pass returned a
\* non-empty JSON object that has the keys meta, summary, blocks and
\* titles_for_images; a call whose core pass failed made no view request;
\* and the user message of every view request carries the serialised core
\* value of the same call.
C17_ViewAfterValidCore ==
  /\ PassOf("view") # <<>> =>
       /\ PassOf("core") # <<>>
       /\ ReturnedNonEmpty(CoreResult)
       /\ IsDict(CoreResult.v) /\ RendererCoreKeys \subseteq DOMAIN CoreResult.v.o
  /\ (ret.kind = "error" /\ ret.err.ctx = "pass 1") => PassOf("view") = <<>>
  /\ \A i \in 1..Len(PassOf("view")) :
       LET content == PassOf("view")[i].req.messages[2].content IN
       SubSeq(content, 3, Len(content)) = Dumps(CoreResult.v)

\* the value the text of the last core response parses to
CoreParsed == JsonLoads(Strip(TextOf(CoreResult.resp))).v

\* C18: the fragment of a returned plan is the one built from the parsed
\* core response alone, whatever the view response was, and the meta,
\* summary, blocks and titles_for_images of the plan are those of the core
\* response.
C18_FragmentFromCoreOnly ==
  ret.kind = "plan" =>
    /\ ret.plan.plan_html_fragment = HtmlFragmentFromCore(CoreParsed)
    /\ \A k \in RendererCoreKeys : ret.plan[k] = CoreParsed.o[k]

\* a plan was returned after a view response whose own fragment has a
\* container tag, and the plan does not carry that fragment
C18_Witness ==
  /\ ret.kind = "plan"
  /\ RemoteFragment = JStr("<div>plan</div>")
  /\ ret.plan.plan_html_fragment # <<"<div>plan</div>">>
  /\ ret.plan.plan_html_fragment[1] = "<section id=workout-plan class=wp-wrap>"

\* C19: the stored plan changes only in a step in which generate_workout_plan
\* returns a plan, and then becomes that plan; a step in which a generation
\* fails, and a click on the button while the stored name is empty, which
\* makes no request, leave the stored plan as it was, present or not.
C19_PlanKeptOnFailure ==
  [][/\ plan' # plan
          => (ret' # ret /\ ret'.kind = "plan" /\ plan' = Stored(ret'.plan))
     /\ PlanCallFails => plan' = plan
     /\ (name = "" /\ msg'.kind = "warning")
          => (plan' = plan /\ attempts' = attempts /\ pc' = Idle)]_vars

\* a generation failed on malformed text while a plan of an earlier
\* generation was stored, and then the button was clicked with no name
C19_Witness ==
  /\ plan.present /\ plan.value.summary = Summary("Leg Day")
  /\ ret.kind = "error" /\ ret.err.kind = "malformed"
  /\ name = "" /\ msg.kind = "warning"

(***************************************************************************)
(* What a failed generate_image_dalle2 call leaves in the image directory, *)
(* checked under SpecImage.                                                *)
(***************************************************************************)
\* the call of session s ended on a missing URL or a non-200 status
FailedNoWrite(f) == f.pc = "done" /\ (MissingUrl(f) \/ BadStatus(f))

\* C20: no step of a call that meets a missing URL or a non-200 status writes
\* to the image directory, whether or not the call was forced; when such a
\* call has ended, its file exists exactly if it existed when the call began,
\* with the content it had; and a non-forced call for a title whose file does
\* not exist sends a request to the image endpoint.
C20_FailedCallWritesNothing ==
  /\ [][\A s \in Sessions :
          /\ (img'[s] # img[s] /\ (MissingUrl(img'[s]) \/ BadStatus(img'[s])))
               => (files' = files /\ img'[s].kind # "path")
          /\ (img'[s] # img[s] /\ img'[s].pc = "fetch") => files' = files
          /\ (FailedNoWrite(img[s]) /\ files[img[s].path] = NoFile
                /\ Calls(s) /\ img'[s].title = img[s].title /\ ~img'[s].force)
               => (img'[s].asked /\ apiCalls' = apiCalls + 1)]_vars
  /\ [](\A s \in Sessions :
          FailedNoWrite(img[s]) =>
            /\ (files[img[s].path] # NoFile) = img[s].existed
            /\ img[s].existed => files[img[s].path].data # <<>>)

\* a forced call for "Squat" met a 404 after an earlier forced call had
\* replaced the file by body 2: the file still holds body 2, and the file of
\* the other title still does not exist
C20_Witness ==
  \E s \in Sessions :
    /\ FailedNoWrite(img[s]) /\ BadStatus(img[s]) /\ img[s].force /\ img[s].existed
    /\ img[s].title = "Squat" /\ files[img[s].path] = File(Body(2))
    /\ files[OutPath("Push/Pull")] = NoFile /\ apiCalls = 2

(***************************************************************************)
(* Termination of generate_workout_plan.  The responses are the remote     *)
(* error, the empty ones, a malformed one and a good one per pass.         *)
(* client.chat.completions.create returns or raises (the client of         *)
(* make_client keeps the library's request timeout), so a call that is     *)
(* inside a pass takes its next attempt.  While a call is inside a pass    *)
(* the attempts are the only steps, and each of them moves pc; the         *)
(* fairness condition is therefore stated on the steps that move pc off a  *)
(* rung of the ladder, which are enabled exactly when an attempt is.       *)
(***************************************************************************)
NextPlanLive ==
  \/ \E n \in Names : SaveSettings(n)
  \/ GenerateClicked
  \/ \E resp \in CoreResponsesApp \cup EmptyResponses : CoreAttempt(resp)
  \/ \E resp \in ViewResponsesApp \cup EmptyResponses : ViewAttempt(resp)

SpecPlanLive ==
  /\ InitPlan /\ [][NextPlanLive]_vars
  /\ WF_pc(/\ running /\ pc.pass \in {"core", "view"}
           /\ \E p \in {"core", "view", "idle"}, k \in 0..LastAttempt :
                pc' = [pass |-> p, k |-> k])

\* the call has ended: it returned a plan or raised
CallEnded == pc = Idle /\ ret.kind \in {"plan", "error"}

\* C21: a call of generate_workout_plan makes at most three requests in the
\* core pass and at most three in the view pass, so at most six; a call that
\* is inside a pass is about to make one of the first three requests of that
\* pass; a returned plan was preceded by at least one request of each pass,
\* so by two to six requests; every step of a call inside a pass is one more
\* request, after which the call stands elsewhere; and every call that has
\* begun ends, returning a plan or raising.
C21_EndsWithinSixRequests ==
  /\ [](/\ Len(PassOf("core")) <= 3 /\ Len(PassOf("view")) <= 3
        /\ Len(attempts) = Len(PassOf("core")) + Len(PassOf("view"))
        /\ Len(attempts) <= 6
        /\ pc # Idle => /\ pc.k \in 1..3
                        /\ pc.k = Len(PassOf(pc.pass)) + 1
        /\ ret.kind = "plan" => /\ Len(PassOf("core")) >= 1
                                /\ Len(PassOf("view")) >= 1
                                /\ Len(attempts) \in 2..6)
  /\ [][pc # Idle => /\ pc' # pc
                      /\ Len(attempts') = Len(attempts) + 1
                      /\ SubSeq(attempts', 1, Len(attempts)) = attempts]_vars
  /\ (pc # Idle) ~> CallEnded

\* a plan returned by the sixth request, after two empty results in each pass
C21_Witness ==
  /\ ret.kind = "plan" /\ pc = Idle /\ Len(attempts) = 6
  /\ Len(PassOf("core")) = 3 /\ Len(PassOf("view")) = 3
  /\ \A i \in {1, 2, 4, 5} : ReturnedEmpty(attempts[i])



=============================================================================
